---- MODULE Spec2Model ----
(***************************************************************************)
(* Model of the legal-analysis assistant: the six model-backed operations  *)
(* of src/services/geminiService.ts and the handlers of src/App.tsx that   *)
(* orchestrate them (per-party summarize / evaluate, synthesis, evidence   *)
(* upload, text-file drop on the argument boxes, export of the results),   *)
(* and the PDF text extractor getTextFromPdf.                              *)
(*                                                                         *)
(* JavaScript runs handlers to completion: one action is one synchronous   *)
(* run of a handler, or of the continuation that resumes after an await,   *)
(* together with the microtasks it triggers (a promise that is already     *)
(* rejected reaches its catch block before any other event is handled).    *)
(* Strings are modelled as strings, with "" the empty (falsy) string; the  *)
(* user-facing Korean messages are named by ASCII strings.  A missing      *)
(* response text (undefined) is falsy like "" and is modelled as "".       *)
(* The drag-highlight flags and copySuccess are presentation-only, are     *)
(* read by no handler, and are left out.                                   *)
(***************************************************************************)
EXTENDS Integers, Sequences, FiniteSets, TLC

\* ---------------------------------------------------------------- bounds
\* Service calls of the per-party handlers that may be outstanding together.
MaxInFlight == 2
\* Requests of an already-failed synthesis run that may still be outstanding.
MaxOrphans == 4
\* Text-file reads of the argument drop targets that may be unfinished together.
MaxReads == 2
\* Pages of a PDF document.
MaxPages == 2

\* ------------------------------------------------------------ value sets
Null == "null"
Party == {"plaintiff", "defendant"}
Other(p) == IF p = "plaintiff" THEN "defendant" ELSE "plaintiff"

\* Texts a user may type and texts the model may return ("" is falsy).
InputTexts == {"", "a"}
ResponseTexts == {"", "t"}

\* A MIME type is the sequence of its tokens: image/png is <<"image","/","png">>.
PngType == <<"image", "/", "png">>
PdfType == <<"application", "/", "pdf">>
TxtType == <<"text", "/", "plain">>
NoFile == [name |-> Null, type |-> <<>>]
PngFile == [name |-> "photo.png", type |-> PngType]
PdfFile == [name |-> "contract.pdf", type |-> PdfType]
TxtFile == [name |-> "notes.txt", type |-> TxtType]
UploadFiles == {PngFile, PdfFile, TxtFile}

\* Files dropped on an argument box.  What FileReader.readAsText yields for
\* a text file is the file's contents; empty.txt is a file of zero bytes.
EmptyTxtFile == [name |-> "empty.txt", type |-> TxtType]
TextFiles == {TxtFile, EmptyTxtFile}
fileText(file) == IF file = EmptyTxtFile THEN "" ELSE "b"
ArgDropFiles == TextFiles \cup {PngFile, PdfFile}

\* ------------------------------------------------------------- messages
MsgSummarizeInput == "summarize: enter an argument or evidence"
MsgEvaluateInput == "evaluate: enter both argument and evidence"
MsgOpponentFirst == "summarize the opponent's argument first"
MsgNoMyArgs(name) == "no argument of mine to structure: " \o name
MsgUnknownAnalysis == "unknown error during AI analysis"
MsgUnsupportedFile == "unsupported file format: upload a PDF or an image"
MsgEvaluatePre == "evaluateEvidence: argument and evidence are both required"
MsgEvaluateFailed == "evaluateEvidence: failed"
MsgUnsupportedEvidence == "unsupported evidence format: upload an image or a PDF"
MsgSummarizePre == "summarizeDocument: no argument or evidence"
MsgSummarizeFailed == "summarizeDocument: failed"
MsgSummaryPre == "generateSummary: both summaries are required"
MsgSummaryFailed == "generateSummary: failed"
MsgComparisonPre == "generateComparisonTable: summaries and key issues are required"
MsgComparisonFailed == "generateComparisonTable: failed"
MsgCounterPre == "generateCounterArguments: opponent not summarised"
MsgCounterFailed == "generateCounterArguments: failed"
MsgStructurePre == "structureMyArguments: my argument or key issues missing"
MsgStructureFailed == "structureMyArguments: failed"
MsgTextFileOnly == "only text files (.txt) can be dropped"
MsgReadFailed == "failed to read the file"
MsgCopyFailed == "failed to copy to the clipboard"

\* ---------------------------------------------------------------- state
VARIABLES lawsuitType, argument, evidenceFile, keyIssues, mySide, myArgs,
          fileError, summary, evaluation, summarizing, evaluating, loading,
          error, summaryError, summaryResult, comparisonResult,
          counterResult, structureResult, calls, pending, values, orphans,
          svc, argFileError, reads, copying, clipboard, downloaded, pdf, sent,
          latest

inputVars == <<lawsuitType, argument, evidenceFile, keyIssues, mySide, myArgs>>
partyVars == <<summary, evaluation, summarizing, evaluating, summaryError>>
bundle == <<summaryResult, comparisonResult, counterResult, structureResult>>
runVars == <<loading, pending, values, orphans, sent>>
\* The argument drop targets, the export controls and the PDF text extractor.
\* `latest` is a history variable: per party, the text supplied by the most
\* recent user action on the argument box (typing, or dropping a text file).
dropVars == <<argFileError, reads, latest>>
exportVars == <<copying, clipboard, downloaded>>
auxVars == <<dropVars, exportVars, pdf>>
vars == <<inputVars, fileError, partyVars, error, bundle, runVars, calls, svc,
          auxVars>>

\* ------------------------------------------------- the service operations
\* The six operations of geminiService.ts.  A call advances in steps:
\*   "throw"   the returned promise is rejected with `message`
\*   "load"    awaiting the evidence loader (fileToBase64 / getTextFromPdf)
\*   "request" the request is sent; awaiting ai.models.generateContent
\*   "return"  the returned promise is fulfilled with `value`
PartyOps == {"summarizeDocument", "evaluateEvidence"}
SynthOrder == <<"generateSummary", "generateComparisonTable",
                "generateCounterArguments", "structureMyArguments">>
SynthOps == {SynthOrder[i] : i \in 1..Len(SynthOrder)}
Ops == PartyOps \cup SynthOps

Throw(m) == [step |-> "throw", message |-> m, value |-> ""]
Await(s) == [step |-> s, message |-> "", value |-> ""]
Return(v) == [step |-> "return", message |-> "", value |-> v]

\* file.type.startsWith('image/') and file.type === 'application/pdf'
isImageFile(type) == Len(type) >= 2 /\ type[1] = "image" /\ type[2] = "/"
isPdfFile(type) == type = <<"application", "/", "pdf">>

\* The catch block of each operation: whatever was thrown inside its try block
\* is logged and replaced by the operation's fixed message.
\* A catch block that throws again what it caught.
summarizeDocumentCatchRethrowing(err) == err

evaluateEvidenceCatch(err) == MsgEvaluateFailed
summarizeDocumentCatch(err) == MsgSummarizeFailed
generateSummaryCatch(err) == MsgSummaryFailed
generateComparisonTableCatch(err) == MsgComparisonFailed
generateCounterArgumentsCatch(err) == MsgCounterFailed
structureMyArgumentsCatch(err) == MsgStructureFailed

Catch(op, err) ==
  CASE op = "evaluateEvidence" -> evaluateEvidenceCatch(err)
    [] op = "summarizeDocument" -> summarizeDocumentCatch(err)
    [] op = "generateSummary" -> generateSummaryCatch(err)
    [] op = "generateComparisonTable" -> generateComparisonTableCatch(err)
    [] op = "generateCounterArguments" -> generateCounterArgumentsCatch(err)
    [] op = "structureMyArguments" -> structureMyArgumentsCatch(err)

\* The synchronous part of each operation, up to its first await.
evaluateEvidence(arg, file) ==
  IF arg = "" \/ file = NoFile THEN Throw(MsgEvaluatePre)
  ELSE IF isImageFile(file.type) THEN Await("load")
  ELSE IF isPdfFile(file.type) THEN Await("load")
  ELSE Throw(evaluateEvidenceCatch(MsgUnsupportedEvidence))

summarizeDocument(arg, file) ==
  IF arg = "" /\ file = NoFile THEN Throw(MsgSummarizePre)
  ELSE IF file = NoFile THEN Await("request")
  ELSE IF isImageFile(file.type) THEN Await("load")
  ELSE IF isPdfFile(file.type) THEN Await("load")
  ELSE Throw(summarizeDocumentCatch(MsgUnsupportedEvidence))

generateSummary(plaintiffArgs, defendantArgs) ==
  IF plaintiffArgs = "" \/ defendantArgs = "" THEN Throw(MsgSummaryPre)
  ELSE Await("request")

\* generateComparisonTable without the test of the issue list.
generateComparisonTableAnyIssues(plaintiffArgs, defendantArgs, issues) ==
  IF plaintiffArgs = "" \/ defendantArgs = "" THEN Throw(MsgComparisonPre)
  ELSE Await("request")

generateComparisonTable(plaintiffArgs, defendantArgs, issues) ==
  IF plaintiffArgs = "" \/ defendantArgs = "" \/ issues = ""
  THEN Throw(MsgComparisonPre)
  ELSE Await("request")

generateCounterArguments(opponentArgs, mySideName, opponentSideName) ==
  IF opponentArgs = "" THEN Throw(MsgCounterPre) ELSE Await("request")

structureMyArguments(args, issues) ==
  IF args = "" \/ issues = "" THEN Throw(MsgStructurePre) ELSE Await("request")

\* --- the comparison response: a JSON text, as the sequence of its tokens
RowFields == {"issue", "plaintiff_argument", "plaintiff_evidence",
              "defendant_argument", "defendant_evidence"}
FullRow == [f \in RowFields |-> "x"]
PartialRow == [f \in {"issue"} |-> "x"]
Tok(t) == [tok |-> t, val |-> [f \in {} |-> "x"]]
Obj(o) == [tok |-> "obj", val |-> o]
EmptyArrayText == <<Tok("["), Tok("]")>>
OneRowText == <<Tok("["), Obj(FullRow), Tok("]")>>
PartialRowText == <<Tok("["), Obj(PartialRow), Tok("]")>>
TruncatedText == <<Tok("["), Obj(FullRow)>>
ComparisonTexts == {EmptyArrayText, OneRowText, PartialRowText, TruncatedText}

\* JSON.parse on an array text: "[" "]" or "[" obj ("," obj)* "]".
JSONparse(text) ==
  LET n == Len(text)
      inner == n - 2
      wellFormed ==
        /\ n >= 2 /\ text[1].tok = "[" /\ text[n].tok = "]"
        /\ (inner = 0 \/ inner % 2 = 1)
        /\ \A i \in 2..(n - 1) :
             text[i].tok = (IF i % 2 = 0 THEN "obj" ELSE ",")
  IN IF wellFormed
     THEN [ok |-> TRUE, value |-> [i \in 1..((inner + 1) \div 2) |-> text[2 * i].val]]
     ELSE [ok |-> FALSE, value |-> <<>>]

\* What the model may return for an operation.
Responses(op) == IF op = "generateComparisonTable" THEN ComparisonTexts
                 ELSE ResponseTexts

\* The continuation after the evidence loader settles.
AfterLoad(op, loaded) ==
  IF loaded THEN Await("request") ELSE Throw(Catch(op, "ReadError"))

\* A continuation that sends the request again when generateContent fails.
AfterRequestRetrying(op, ok, text) ==
  IF ~ok THEN Await("request")
  ELSE IF op = "generateComparisonTable"
       THEN IF JSONparse(text).ok THEN Return(JSONparse(text).value)
            ELSE Throw(Catch(op, "SyntaxError"))
       ELSE Return(text)

\* The continuation after generateContent settles: `return response.text`, or
\* for the comparison table `JSON.parse(response.text) as ComparisonRow[]`.
AfterRequest(op, ok, text) ==
  IF ~ok THEN Throw(Catch(op, "TransportError"))
  ELSE IF op = "generateComparisonTable"
       THEN IF JSONparse(text).ok THEN Return(JSONparse(text).value)
            ELSE Throw(Catch(op, "SyntaxError"))
       ELSE Return(text)

\* ------------------------------------------------- App.tsx: derived values
partyNames ==
  CASE lawsuitType = "civil" -> [plaintiff |-> "wongo", defendant |-> "pigo"]
    [] lawsuitType = "criminal" -> [plaintiff |-> "geomsa", defendant |-> "pigoin"]
    [] OTHER -> [plaintiff |-> "wongo", defendant |-> "pigo"]

\* The party panels and the synthesis controls are rendered only once a
\* lawsuit type is chosen.
inputsShown == lawsuitType # Null

NoSummaryError == [party |-> Null, message |-> Null]
SummaryError(p, m) == [party |-> p, message |-> m]
currentError(p) == IF summaryError.party = p THEN summaryError.message ELSE Null

isSummarizing(p) == summarizing = p
isEvaluating(p) == evaluating = p

\* The summarize pre-check made as strict as the evaluate pre-check.
summarizeInputMissingEither(arg, file) == arg = "" \/ file = NoFile
summarizeInputMissing(arg, file) == arg = "" /\ file = NoFile
evaluateInputMissing(arg, file) == arg = "" \/ file = NoFile

isSummarizeDisabled(p) ==
  \/ (argument[p] = "" /\ evidenceFile[p] = NoFile)
  \/ isSummarizing(p)
  \/ isEvaluating(p)

isEvaluateDisabled(p) ==
  \/ argument[p] = ""
  \/ evidenceFile[p] = NoFile
  \/ isSummarizing(p)
  \/ isEvaluating(p)

\* isGenerateDisabled without the test of the issue list.
isGenerateDisabledAnyIssues ==
  loading \/ summary["plaintiff"] = "" \/ summary["defendant"] = ""

\* A readiness test that does not look at the defendant's summary.
isGenerateDisabledAnyDefendant ==
  loading \/ summary["plaintiff"] = "" \/ keyIssues = ""

isGenerateDisabled ==
  loading \/ summary["plaintiff"] = "" \/ summary["defendant"] = "" \/ keyIssues = ""

hasResults ==
  \/ summaryResult # ""
  \/ Len(comparisonResult) > 0
  \/ counterResult # ""
  \/ structureResult # ""

\* --------------------------------------- outstanding per-party service calls
\* calls[<<op, p>>]: how many calls of op made by party p's handler have not
\* settled: the handler awaits the returned promise and cannot tell whether the
\* call is at its evidence loader or at the model (OpsNext follows one call
\* through those steps).
CallKeys == PartyOps \X Party
NoCalls == [k \in CallKeys |-> 0]
Outstanding(op, p) == calls[<<op, p>>]
TotalCalls ==
  Outstanding("summarizeDocument", "plaintiff")
  + Outstanding("summarizeDocument", "defendant")
  + Outstanding("evaluateEvidence", "plaintiff")
  + Outstanding("evaluateEvidence", "defendant")

\* `sent` holds, while a run is awaited, the arguments handleGenerate passed
\* to each of the four calls.
NoSent == [op \in SynthOps |-> <<>>]
NoValues == [op \in SynthOps |-> IF op = "generateComparisonTable" THEN <<>> ELSE ""]
SvcIdle == [op |-> Null, args |-> <<>>, step |-> "idle", message |-> "",
            value |-> "", requests |-> 0]

\* FileReader reads started by handleArgDrop and not yet finished, counted
\* per target and file.
ReadKeys == Party \X ArgDropFiles
NoReads == [k \in ReadKeys |-> 0]
RECURSIVE SumReads(_, _)
SumReads(f, keys) ==
  IF keys = {} THEN 0
  ELSE LET k == CHOOSE x \in keys : TRUE IN f[k] + SumReads(f, keys \ {k})
TotalReads == SumReads(reads, ReadKeys)

\* getTextFromPdf before it is called.
\* `visited` lists the page numbers passed to pdf.getPage so far; `previous`
\* keeps the document and the result of the latest extraction that returned.
NoExtraction == [done |-> FALSE, pages |-> <<>>, text |-> <<>>]
PdfIdle == [pages |-> <<>>, i |-> 0, fullText |-> <<>>, step |-> "idle",
            visited |-> <<>>, previous |-> NoExtraction]

\* Nothing has been downloaded; a clipboard never written by the app is <<>>.
NoDownload == [name |-> Null, content |-> <<>>]

AuxInit ==
  /\ argFileError = [p \in Party |-> Null]
  /\ reads = NoReads
  /\ latest = argument
  /\ copying = {}
  /\ clipboard = <<>>
  /\ downloaded = NoDownload
  /\ pdf = PdfIdle

Init ==
  /\ lawsuitType = Null
  /\ argument = [p \in Party |-> ""]
  /\ evidenceFile = [p \in Party |-> NoFile]
  /\ keyIssues = ""
  /\ mySide = "plaintiff"
  /\ myArgs = ""
  /\ fileError = [p \in Party |-> Null]
  /\ summary = [p \in Party |-> ""]
  /\ evaluation = [p \in Party |-> ""]
  /\ summarizing = Null
  /\ evaluating = Null
  /\ loading = FALSE
  /\ error = Null
  /\ summaryError = NoSummaryError
  /\ summaryResult = ""
  /\ comparisonResult = <<>>
  /\ counterResult = ""
  /\ structureResult = ""
  /\ calls = NoCalls
  /\ pending = {}
  /\ values = NoValues
  /\ orphans = 0
  /\ sent = NoSent
  /\ svc = SvcIdle
  /\ AuxInit

\* ------------------------------------------------------ the input controls
setLawsuitType(t) ==
  /\ lawsuitType' = t
  /\ UNCHANGED <<argument, evidenceFile, keyIssues, mySide, myArgs, fileError,
                 partyVars, error, bundle, runVars, calls, svc, auxVars>>

\* The chooser is shown while no type is set, the "change type" button after.
ChooseLawsuitType ==
  \E t \in {"civil", "criminal", Null} :
    /\ (lawsuitType = Null) = (t # Null)
    /\ setLawsuitType(t)

setArgument(p, text) ==
  /\ argument' = [argument EXCEPT ![p] = text]
  /\ UNCHANGED <<lawsuitType, evidenceFile, keyIssues, mySide, myArgs, fileError,
                 partyVars, error, bundle, runVars, calls, svc, exportVars, pdf>>

setKeyIssues(text) ==
  /\ keyIssues' = text
  /\ UNCHANGED <<lawsuitType, argument, evidenceFile, mySide, myArgs, fileError,
                 partyVars, error, bundle, runVars, calls, svc, auxVars>>

setMySide(side) ==
  /\ mySide' = side
  /\ UNCHANGED <<lawsuitType, argument, evidenceFile, keyIssues, myArgs, fileError,
                 partyVars, error, bundle, runVars, calls, svc, auxVars>>

setMyArgs(text) ==
  /\ myArgs' = text
  /\ UNCHANGED <<lawsuitType, argument, evidenceFile, keyIssues, mySide, fileError,
                 partyVars, error, bundle, runVars, calls, svc, auxVars>>

EditArgument ==
  \E p \in Party, text \in InputTexts :
    /\ inputsShown
    /\ setArgument(p, text)
    /\ latest' = [latest EXCEPT ![p] = text]
    /\ UNCHANGED <<argFileError, reads>>

EditKeyIssues ==
  \E text \in InputTexts : inputsShown /\ setKeyIssues(text)

EditMySide ==
  \E side \in Party : inputsShown /\ setMySide(side)

EditMyArgs ==
  \E text \in InputTexts : inputsShown /\ setMyArgs(text)

\* ------------------------------------------------------- evidence upload
\* An upload filter that lets every file type through.
acceptsEvidenceOfAnyType(file) == TRUE

\* isPdfFile || isImageFile, as tested by handleFileChange and handleDrop.
acceptsEvidence(file) == isPdfFile(file.type) \/ isImageFile(file.type)

\* `files` is the event's file list: empty, or one file (only files[0] is read).
handleFileChange(p, files) ==
  /\ IF files # <<>>
     THEN IF acceptsEvidence(files[1])
          THEN /\ evidenceFile' = [evidenceFile EXCEPT ![p] = files[1]]
               /\ fileError' = [fileError EXCEPT ![p] = Null]
          ELSE /\ fileError' = [fileError EXCEPT ![p] = MsgUnsupportedFile]
               /\ UNCHANGED evidenceFile
     ELSE /\ fileError' = [fileError EXCEPT ![p] = Null]
          /\ UNCHANGED evidenceFile
  /\ UNCHANGED <<lawsuitType, argument, keyIssues, mySide, myArgs,
                 partyVars, error, bundle, runVars, calls, svc, auxVars>>

handleDrop(p, files) ==
  /\ IF Len(files) > 0
     THEN IF acceptsEvidence(files[1])
          THEN /\ evidenceFile' = [evidenceFile EXCEPT ![p] = files[1]]
               /\ fileError' = [fileError EXCEPT ![p] = Null]
          ELSE /\ fileError' = [fileError EXCEPT ![p] = MsgUnsupportedFile]
               /\ UNCHANGED evidenceFile
     ELSE /\ fileError' = [fileError EXCEPT ![p] = Null]
          /\ UNCHANGED evidenceFile
  /\ UNCHANGED <<lawsuitType, argument, keyIssues, mySide, myArgs,
                 partyVars, error, bundle, runVars, calls, svc, auxVars>>

handleRemoveFile(p) ==
  /\ evidenceFile' = [evidenceFile EXCEPT ![p] = NoFile]
  /\ fileError' = [fileError EXCEPT ![p] = Null]
  /\ UNCHANGED <<lawsuitType, argument, keyIssues, mySide, myArgs,
                 partyVars, error, bundle, runVars, calls, svc, auxVars>>

FileLists == {<<>>} \cup {<<f>> : f \in UploadFiles}

\* The file input is rendered only while the party has no evidence file.
SelectFile ==
  \E p \in Party, files \in FileLists :
    inputsShown /\ evidenceFile[p] = NoFile /\ handleFileChange(p, files)

DropFile ==
  \E p \in Party, files \in FileLists : inputsShown /\ handleDrop(p, files)

\* The remove button is rendered only while the party has an evidence file.
RemoveFile ==
  \E p \in Party :
    inputsShown /\ evidenceFile[p] # NoFile /\ handleRemoveFile(p)

\* ------------------------------------------- handleSummarize / handleEvaluate
\* The code after the await: the try block's tail, or the catch block, and
\* the finally block.  None of them touches the synthesis results.
\* A summarize continuation that also discards the synthesis results.
summarizeResolvedDiscarding(p, text) ==
  /\ summary' = [summary EXCEPT ![p] = text]
  /\ summarizing' = Null
  /\ summaryResult' = ""
  /\ comparisonResult' = <<>>
  /\ counterResult' = ""
  /\ structureResult' = ""
  /\ UNCHANGED <<evaluation, evaluating, summaryError, error>>

summarizeResolved(p, text) ==
  /\ summary' = [summary EXCEPT ![p] = text]
  /\ summarizing' = Null
  /\ UNCHANGED <<evaluation, evaluating, summaryError, error, bundle>>

\* A catch block without the finally block: the indicator is left set.
summarizeRejectedKeepingIndicator(p, message) ==
  /\ summaryError' = SummaryError(p, message)
  /\ UNCHANGED <<summarizing, summary, evaluation, evaluating, error, bundle>>

summarizeRejected(p, message) ==
  /\ summaryError' = SummaryError(p, message)
  /\ summarizing' = Null
  /\ UNCHANGED <<summary, evaluation, evaluating, error, bundle>>

\* A success branch of handleEvaluate that also discards the party's summary.
evaluateResolvedClearingSummary(p, text) ==
  /\ evaluation' = [evaluation EXCEPT ![p] = text]
  /\ summary' = [summary EXCEPT ![p] = ""]
  /\ evaluating' = Null
  /\ UNCHANGED <<summarizing, summaryError, error, bundle>>

evaluateResolved(p, text) ==
  /\ evaluation' = [evaluation EXCEPT ![p] = text]
  /\ evaluating' = Null
  /\ UNCHANGED <<summary, summarizing, summaryError, error, bundle>>

evaluateRejected(p, message) ==
  /\ summaryError' = SummaryError(p, message)
  /\ evaluating' = Null
  /\ UNCHANGED <<summary, evaluation, summarizing, error, bundle>>

\* The handler up to its await.  A call that throws before its first await
\* reaches the handler's catch and finally blocks before any other event.
handleSummarize(p) ==
  LET call == summarizeDocument(argument[p], evidenceFile[p]) IN
  /\ IF summarizeInputMissing(argument[p], evidenceFile[p])
     THEN /\ summaryError' = SummaryError(p, MsgSummarizeInput)
          /\ UNCHANGED <<summary, evaluation, summarizing, evaluating, error, calls>>
     ELSE IF call.step = "throw"
     THEN /\ summaryError' = SummaryError(p, call.message)
          /\ summarizing' = Null
          /\ error' = Null
          /\ UNCHANGED <<summary, evaluation, evaluating, calls>>
     ELSE /\ summarizing' = p
          /\ summaryError' = NoSummaryError
          /\ error' = Null
          /\ calls' = [calls EXCEPT ![<<"summarizeDocument", p>>] = @ + 1]
          /\ UNCHANGED <<summary, evaluation, evaluating>>
  /\ UNCHANGED <<inputVars, fileError, bundle, runVars, svc, auxVars>>

handleEvaluate(p) ==
  LET call == evaluateEvidence(argument[p], evidenceFile[p]) IN
  /\ IF evaluateInputMissing(argument[p], evidenceFile[p])
     THEN /\ summaryError' = SummaryError(p, MsgEvaluateInput)
          /\ UNCHANGED <<summary, evaluation, summarizing, evaluating, error, calls>>
     ELSE IF call.step = "throw"
     THEN /\ summaryError' = SummaryError(p, call.message)
          /\ evaluating' = Null
          /\ error' = Null
          /\ UNCHANGED <<summary, evaluation, summarizing, calls>>
     ELSE /\ evaluating' = p
          /\ summaryError' = NoSummaryError
          /\ error' = Null
          /\ calls' = [calls EXCEPT ![<<"evaluateEvidence", p>>] = @ + 1]
          /\ UNCHANGED <<summary, evaluation, summarizing>>
  /\ UNCHANGED <<inputVars, fileError, bundle, runVars, svc, auxVars>>

\* The buttons: a click reaches the handler only while the button is enabled.
ClickSummarize ==
  \E p \in Party :
    /\ inputsShown /\ ~isSummarizeDisabled(p)
    /\ TotalCalls < MaxInFlight
    /\ handleSummarize(p)

ClickEvaluate ==
  \E p \in Party :
    /\ inputsShown /\ ~isEvaluateDisabled(p)
    /\ TotalCalls < MaxInFlight
    /\ handleEvaluate(p)

\* The handlers invoked directly, whatever the state of their buttons.
TriggerSummarize ==
  \E p \in Party : inputsShown /\ TotalCalls < MaxInFlight /\ handleSummarize(p)

TriggerEvaluate ==
  \E p \in Party : inputsShown /\ TotalCalls < MaxInFlight /\ handleEvaluate(p)

\* An outstanding call of party p returns: its request was answered with `text`.
callResolved(op, p, text) ==
  /\ calls[<<op, p>>] > 0
  /\ calls' = [calls EXCEPT ![<<op, p>>] = @ - 1]
  /\ IF op = "summarizeDocument"
     THEN summarizeResolved(p, AfterRequest(op, TRUE, text).value)
     ELSE evaluateResolved(p, AfterRequest(op, TRUE, text).value)
  /\ UNCHANGED <<inputVars, fileError, runVars, svc, auxVars>>

\* An outstanding call of party p throws the message `message`.
callRejected(op, p, message) ==
  /\ calls[<<op, p>>] > 0
  /\ calls' = [calls EXCEPT ![<<op, p>>] = @ - 1]
  /\ IF op = "summarizeDocument"
     THEN summarizeRejected(p, message)
     ELSE evaluateRejected(p, message)
  /\ UNCHANGED <<inputVars, fileError, runVars, svc, auxVars>>

PartyResponse ==
  \E op \in PartyOps, p \in Party, text \in ResponseTexts : callResolved(op, p, text)

\* The evidence loader or the request of an outstanding call fails.
PartyFailed ==
  \E op \in PartyOps, p \in Party :
    \E thrown \in {AfterLoad(op, FALSE), AfterRequest(op, FALSE, "")} :
      callRejected(op, p, thrown.message)

\* ------------------------------------------------------------ handleGenerate
\* `pending` holds the operations of the awaited Promise.all that have not
\* settled, `values` the results of those that have; `orphans` counts the
\* requests still outstanding whose Promise.all has already rejected.
\* A start of run that keeps the cross-party summary on display.
clearResultsExceptSummary ==
  /\ comparisonResult' = <<>>
  /\ counterResult' = ""
  /\ structureResult' = ""
  /\ UNCHANGED summaryResult

\* A start of run that keeps the counter-arguments on display.
clearResultsExceptCounter ==
  /\ summaryResult' = ""
  /\ comparisonResult' = <<>>
  /\ structureResult' = ""
  /\ UNCHANGED counterResult

clearResults ==
  /\ summaryResult' = ""
  /\ comparisonResult' = <<>>
  /\ counterResult' = ""
  /\ structureResult' = ""

\* The catch and finally blocks.
generateRejected(message) ==
  /\ error' = message
  /\ loading' = FALSE
  /\ pending' = {}
  /\ values' = NoValues
  /\ sent' = NoSent

\* A commit that leaves the comparison rows out.
generateResolvedWithoutRows(v) ==
  /\ summaryResult' = v["generateSummary"]
  /\ counterResult' = v["generateCounterArguments"]
  /\ structureResult' = v["structureMyArguments"]
  /\ UNCHANGED comparisonResult
  /\ loading' = FALSE
  /\ pending' = {}
  /\ values' = NoValues
  /\ sent' = NoSent

\* A commit that stores the last two results in each other's field.
generateResolvedSwapped(v) ==
  /\ summaryResult' = v["generateSummary"]
  /\ comparisonResult' = v["generateComparisonTable"]
  /\ counterResult' = v["structureMyArguments"]
  /\ structureResult' = v["generateCounterArguments"]
  /\ loading' = FALSE
  /\ pending' = {}
  /\ values' = NoValues
  /\ sent' = NoSent

\* The tail of the try block, and the finally block.
generateResolved(v) ==
  /\ summaryResult' = v["generateSummary"]
  /\ comparisonResult' = v["generateComparisonTable"]
  /\ counterResult' = v["generateCounterArguments"]
  /\ structureResult' = v["structureMyArguments"]
  /\ loading' = FALSE
  /\ pending' = {}
  /\ values' = NoValues
  /\ sent' = NoSent

\* A routing that hands the selected side's own summary to the rebuttal.
opponentSummaryOfMySide ==
  IF mySide = "plaintiff" THEN summary["plaintiff"] ELSE summary["defendant"]

opponentSummary == IF mySide = "plaintiff" THEN summary["defendant"] ELSE summary["plaintiff"]
mySideName == IF mySide = "plaintiff" THEN partyNames.plaintiff ELSE partyNames.defendant
opponentSideName == IF mySide = "plaintiff" THEN partyNames.defendant ELSE partyNames.plaintiff
mySummary == IF mySide = "plaintiff" THEN summary["plaintiff"] ELSE summary["defendant"]
argsToStructure == IF myArgs # "" THEN myArgs ELSE mySummary

\* The arguments of the four calls handed to Promise.all.
generateArgs ==
  [op \in SynthOps |->
     CASE op = "generateSummary" -> <<summary["plaintiff"], summary["defendant"]>>
       [] op = "generateComparisonTable" ->
            <<summary["plaintiff"], summary["defendant"], keyIssues>>
       [] op = "generateCounterArguments" ->
            <<opponentSummary, mySideName, opponentSideName>>
       [] op = "structureMyArguments" -> <<argsToStructure, keyIssues>>]

\* The four calls handed to Promise.all, in its order.
generateCalls ==
  [op \in SynthOps |->
     LET args == generateArgs[op] IN
     CASE op = "generateSummary" -> generateSummary(args[1], args[2])
       [] op = "generateComparisonTable" ->
            generateComparisonTable(args[1], args[2], args[3])
       [] op = "generateCounterArguments" ->
            generateCounterArguments(args[1], args[2], args[3])
       [] op = "structureMyArguments" -> structureMyArguments(args[1], args[2])]

\* Promise.all rejects with the first rejection it is notified of: among calls
\* that threw before their first await, the one earliest in the array.
handleGenerate ==
  LET thrown == {i \in 1..Len(SynthOrder) : generateCalls[SynthOrder[i]].step = "throw"}
      first == CHOOSE i \in thrown : \A j \in thrown : i <= j
  IN /\ clearResults
     /\ IF opponentSummary = ""
        THEN generateRejected(MsgOpponentFirst) /\ UNCHANGED orphans
        ELSE IF mySummary = "" /\ myArgs = ""
        THEN generateRejected(MsgNoMyArgs(partyNames[mySide])) /\ UNCHANGED orphans
        ELSE IF thrown # {}
        THEN /\ generateRejected(generateCalls[SynthOrder[first]].message)
             /\ orphans' = orphans + (Len(SynthOrder) - Cardinality(thrown))
        ELSE /\ loading' = TRUE
             /\ error' = Null
             /\ pending' = SynthOps
             /\ values' = NoValues
             /\ sent' = generateArgs
             /\ UNCHANGED orphans
     /\ UNCHANGED <<inputVars, fileError, partyVars, calls, svc, auxVars>>

ClickGenerate ==
  /\ inputsShown /\ ~isGenerateDisabled
  /\ orphans + Len(SynthOrder) - 1 <= MaxOrphans
  /\ handleGenerate

\* What a request of the running synthesis may settle to.
Settlements(op) ==
  {AfterRequest(op, FALSE, "")} \cup {AfterRequest(op, TRUE, text) : text \in Responses(op)}

\* One call of the running synthesis returns; the last one to do so commits.
GenerateResponse ==
  \E op \in pending : \E r \in Settlements(op) :
    LET v == [values EXCEPT ![op] = r.value]
    IN /\ r.step = "return"
       /\ IF pending = {op}
          THEN generateResolved(v) /\ UNCHANGED <<error, orphans>>
          ELSE /\ pending' = pending \ {op}
               /\ values' = v
               /\ UNCHANGED <<loading, error, orphans, bundle, sent>>
       /\ UNCHANGED <<inputVars, fileError, partyVars, calls, svc, auxVars>>

\* One call of the running synthesis throws: Promise.all rejects at once.
generateCallRejected(op, message) ==
  /\ op \in pending
  /\ generateRejected(message)
  /\ orphans' = orphans + Cardinality(pending) - 1
  /\ UNCHANGED <<inputVars, fileError, partyVars, bundle, calls, svc, auxVars>>

GenerateFailed ==
  \E op \in pending : \E r \in Settlements(op) :
    r.step = "throw" /\ generateCallRejected(op, r.message)

\* A late settlement that ends whatever run is awaited.
OrphanSettledEndingRun ==
  /\ orphans > 0
  /\ orphans' = orphans - 1
  /\ loading' = FALSE
  /\ UNCHANGED <<inputVars, fileError, partyVars, error, bundle,
                 pending, values, sent, calls, svc, auxVars>>

\* A request whose Promise.all has already rejected settles: nothing awaits it.
OrphanSettled ==
  /\ orphans > 0
  /\ orphans' = orphans - 1
  /\ UNCHANGED <<inputVars, fileError, partyVars, error, bundle,
                 loading, pending, values, sent, calls, svc, auxVars>>

\* ------------------------------------------- one service call, step by step
\* svc follows a single call of one operation from its invocation to the
\* settling of its promise; svc.requests counts the requests it has sent.
SvcTexts == {"", "a", "b"}
SvcFiles == {NoFile} \cup UploadFiles

ArgsOf(op) ==
  CASE op = "evaluateEvidence" -> SvcTexts \X SvcFiles
    [] op = "summarizeDocument" -> SvcTexts \X SvcFiles
    [] op = "generateSummary" -> SvcTexts \X SvcTexts
    [] op = "generateComparisonTable" -> SvcTexts \X SvcTexts \X SvcTexts
    [] op = "generateCounterArguments" -> SvcTexts \X {"wongo"} \X {"pigo"}
    [] op = "structureMyArguments" -> SvcTexts \X SvcTexts

Call(op, args) ==
  CASE op = "evaluateEvidence" -> evaluateEvidence(args[1], args[2])
    [] op = "summarizeDocument" -> summarizeDocument(args[1], args[2])
    [] op = "generateSummary" -> generateSummary(args[1], args[2])
    [] op = "generateComparisonTable" -> generateComparisonTable(args[1], args[2], args[3])
    [] op = "generateCounterArguments" -> generateCounterArguments(args[1], args[2], args[3])
    [] op = "structureMyArguments" -> structureMyArguments(args[1], args[2])

\* The call reaches `next`; reaching "request" is sending the request.
SvcStep(op, args, next) ==
  svc' = [op |-> op, args |-> args, step |-> next.step, message |-> next.message,
          value |-> next.value,
          requests |-> svc.requests + (IF next.step = "request" THEN 1 ELSE 0)]

SvcInvoke ==
  /\ svc.step = "idle"
  /\ \E op \in Ops : \E args \in ArgsOf(op) :
       svc' = [op |-> op, args |-> args, step |-> Call(op, args).step,
               message |-> Call(op, args).message, value |-> Call(op, args).value,
               requests |-> IF Call(op, args).step = "request" THEN 1 ELSE 0]
  /\ UNCHANGED <<inputVars, fileError, partyVars, error, bundle, runVars, calls,
                 auxVars>>

SvcLoaded ==
  /\ svc.step = "load"
  /\ \E loaded \in BOOLEAN : SvcStep(svc.op, svc.args, AfterLoad(svc.op, loaded))
  /\ UNCHANGED <<inputVars, fileError, partyVars, error, bundle, runVars, calls,
                 auxVars>>

SvcAnswered ==
  /\ svc.step = "request"
  /\ \E r \in Settlements(svc.op) : SvcStep(svc.op, svc.args, r)
  /\ UNCHANGED <<inputVars, fileError, partyVars, error, bundle, runVars, calls,
                 auxVars>>

SvcSettled ==
  /\ svc.step \in {"throw", "return"}
  /\ svc' = SvcIdle
  /\ UNCHANGED <<inputVars, fileError, partyVars, error, bundle, runVars, calls,
                 auxVars>>

\* ------------------------------------------------- the argument drop target
\* A drop test that starts a read for a file of any type.
isTextFileOfAnyType(type) == TRUE

\* droppedFile.type === 'text/plain'
isTextFile(type) == type = <<"text", "/", "plain">>

\* handleArgDrop with the setters of party p; `files` is e.dataTransfer.files.
\* reader.readAsText only starts the read: onload / onerror run later.
handleArgDrop(p, files) ==
  /\ IF Len(files) > 0
     THEN IF isTextFile(files[1].type)
          THEN /\ argFileError' = [argFileError EXCEPT ![p] = Null]
               /\ reads' = [reads EXCEPT ![<<p, files[1]>>] = @ + 1]
               /\ latest' = [latest EXCEPT ![p] = fileText(files[1])]
          ELSE /\ argFileError' = [argFileError EXCEPT ![p] = MsgTextFileOnly]
               /\ UNCHANGED <<reads, latest>>
     ELSE /\ argFileError' = [argFileError EXCEPT ![p] = Null]
          /\ UNCHANGED <<reads, latest>>
  /\ UNCHANGED <<inputVars, fileError, partyVars, error, bundle, runVars, calls,
                 svc, exportVars, pdf>>

\* reader.onload: the result is stored only if it is truthy.
readLoaded(p, file) ==
  /\ reads[<<p, file>>] > 0
  /\ reads' = [reads EXCEPT ![<<p, file>>] = @ - 1]
  /\ IF fileText(file) # ""
     THEN setArgument(p, fileText(file))
     ELSE UNCHANGED <<inputVars, fileError, partyVars, error, bundle, runVars,
                      calls, svc, exportVars, pdf>>
  /\ UNCHANGED <<argFileError, latest>>

\* reader.onerror
readFailed(p, file) ==
  /\ reads[<<p, file>>] > 0
  /\ reads' = [reads EXCEPT ![<<p, file>>] = @ - 1]
  /\ argFileError' = [argFileError EXCEPT ![p] = MsgReadFailed]
  /\ UNCHANGED latest
  /\ UNCHANGED <<inputVars, fileError, partyVars, error, bundle, runVars, calls,
                 svc, exportVars, pdf>>

ArgDropLists == {<<>>} \cup {<<f>> : f \in ArgDropFiles}

ArgDrop ==
  \E p \in Party, files \in ArgDropLists :
    /\ inputsShown
    /\ Len(files) > 0 /\ isTextFile(files[1].type) => TotalReads < MaxReads
    /\ handleArgDrop(p, files)

ArgReadLoaded == \E p \in Party, file \in ArgDropFiles : readLoaded(p, file)

ArgReadFailed == \E p \in Party, file \in ArgDropFiles : readFailed(p, file)

\* ------------------------------------------------------ export of the bundle
\* A text is the sequence of its pieces; a piece is a literal of the code, a
\* stored text or a row field.  The whitespace pieces are the ones trim() eats.
HdrSummary == "--- case summary ---"
HdrComparison == "--- comparison by issue ---"
HdrCounter == "--- counter-arguments ---"
HdrStructure == "--- my arguments, structured ---"
isSpace(piece) == piece \in {"", " ", "\n", "\n\n"}

\* String.prototype.trim
RECURSIVE trimStart(_)
trimStart(text) ==
  IF text # <<>> /\ isSpace(Head(text)) THEN trimStart(Tail(text)) ELSE text
RECURSIVE trimEnd(_)
trimEnd(text) ==
  IF text # <<>> /\ isSpace(text[Len(text)])
  THEN trimEnd(SubSeq(text, 1, Len(text) - 1)) ELSE text
trim(text) == trimEnd(trimStart(text))

\* A section that is written whether or not its field holds a text.
textSectionAlways(header, body) == <<header, "\n\n", body, "\n\n">>

\* if (field) { fullText += header + field + '\n\n' }
textSection(header, body) ==
  IF body # "" THEN <<header, "\n\n", body, "\n\n">> ELSE <<>>

\* `${row.f}`: a field the row lacks is written as "undefined".
rowField(row, f) == IF f \in DOMAIN row THEN row[f] ELSE "undefined"

\* The template literal of one comparison row.
rowText(row) ==
  <<"[issue]: ", rowField(row, "issue"), "\n\n",
    "  - ", partyNames.plaintiff, " argument: ", rowField(row, "plaintiff_argument"), "\n",
    "  - ", partyNames.plaintiff, " evidence: ", rowField(row, "plaintiff_evidence"), "\n\n",
    "  - ", partyNames.defendant, " argument: ", rowField(row, "defendant_argument"), "\n",
    "  - ", partyNames.defendant, " evidence: ", rowField(row, "defendant_evidence"), "\n",
    "---------------------------------", "\n">>

\* comparisonResult.map(...).join('\n')
RECURSIVE joinRows(_)
joinRows(rows) ==
  IF rows = <<>> THEN <<>>
  ELSE IF Len(rows) = 1 THEN rowText(rows[1])
  ELSE rowText(rows[1]) \o <<"\n">> \o joinRows(Tail(rows))

comparisonSection ==
  IF Len(comparisonResult) > 0
  THEN <<HdrComparison, "\n\n">> \o joinRows(comparisonResult) \o <<"\n\n">>
  ELSE <<>>

getResultAsText ==
  trim(textSection(HdrSummary, summaryResult)
       \o comparisonSection
       \o textSection(HdrCounter, counterResult)
       \o textSection(HdrStructure, structureResult))

\* handleCopy starts the clipboard write; its promise settles later.
handleCopy ==
  /\ IF getResultAsText # <<>>
     THEN copying' = copying \cup {getResultAsText}
     ELSE UNCHANGED copying
  /\ UNCHANGED <<inputVars, fileError, partyVars, error, bundle, runVars, calls,
                 svc, dropVars, pdf, clipboard, downloaded>>

\* The two callbacks of navigator.clipboard.writeText(...).then.
copySettled(text, ok) ==
  /\ text \in copying
  /\ copying' = copying \ {text}
  /\ IF ok THEN clipboard' = text /\ UNCHANGED error
     ELSE error' = MsgCopyFailed /\ UNCHANGED clipboard
  /\ UNCHANGED <<inputVars, fileError, partyVars, bundle, runVars, calls,
                 svc, dropVars, pdf, downloaded>>

handleDownload ==
  /\ IF getResultAsText # <<>>
     THEN downloaded' = [name |-> "legal_analysis_result.txt",
                         content |-> getResultAsText]
     ELSE UNCHANGED downloaded
  /\ UNCHANGED <<inputVars, fileError, partyVars, error, bundle, runVars, calls,
                 svc, dropVars, pdf, copying, clipboard>>

\* The export buttons are rendered with the results, when no run is loading.
ClickCopy == inputsShown /\ ~loading /\ hasResults /\ handleCopy

CopySettled == \E text \in copying, ok \in BOOLEAN : copySettled(text, ok)

ClickDownload == inputsShown /\ ~loading /\ hasResults /\ handleDownload

\* ------------------------------------------------------- getTextFromPdf
\* A document is the sequence of its pages, a page the sequence of the `str`
\* of its text items; the extracted text is a sequence of pieces, as above.
PdfPages == {<<>>, <<"x">>, <<"x", "y">>}
PdfDocs == UNION {[1..n -> PdfPages] : n \in 1..MaxPages}

\* items.map(item => item.str).join(' ')
RECURSIVE joinItems(_)
joinItems(items) ==
  IF items = <<>> THEN <<>>
  ELSE IF Len(items) = 1 THEN <<items[1]>>
  ELSE <<items[1], " ">> \o joinItems(Tail(items))

\* The text of a page without the newline the loop appends to it.
pageTextWithoutNewline(items) == joinItems(items)

\* What one turn of the loop appends to fullText.
pageText(items) == joinItems(items) \o <<"\n">>

pdfFrame ==
  UNCHANGED <<inputVars, fileError, partyVars, error, bundle, runVars, calls,
              svc, dropVars, exportVars>>

\* getTextFromPdf is called: it awaits file.arrayBuffer() and getDocument.
PdfCalled ==
  /\ pdf.step \in {"idle", "return", "throw"}
  /\ \E doc \in PdfDocs :
       pdf' = [pages |-> doc, i |-> 0, fullText |-> <<>>, step |-> "open",
               visited |-> <<>>,
               previous |-> IF pdf.step = "return"
                            THEN [done |-> TRUE, pages |-> pdf.pages,
                                  text |-> pdf.fullText]
                            ELSE pdf.previous]
  /\ pdfFrame

\* The document is loaded (fullText = '', i = 1), or loading it fails.
PdfOpened ==
  /\ pdf.step = "open"
  /\ \E ok \in BOOLEAN :
       pdf' = IF ok THEN [pdf EXCEPT !.step = "loop", !.i = 1, !.fullText = <<>>]
              ELSE [pdf EXCEPT !.step = "throw"]
  /\ pdfFrame

\* One turn of the loop, i <= pdf.numPages: getPage(i), getTextContent, append;
\* or one of the two awaited calls fails.
PdfPage ==
  /\ pdf.step = "loop"
  /\ pdf.i <= Len(pdf.pages)
  /\ \E ok \in BOOLEAN :
       pdf' = IF ok
              THEN [pdf EXCEPT !.visited = Append(@, pdf.i),
                               !.fullText = @ \o pageText(pdf.pages[pdf.i]),
                               !.i = @ + 1]
              ELSE [pdf EXCEPT !.visited = Append(@, pdf.i), !.step = "throw"]
  /\ pdfFrame

\* The loop condition fails: return fullText.
PdfReturn ==
  /\ pdf.step = "loop"
  /\ ~(pdf.i <= Len(pdf.pages))
  /\ pdf' = [pdf EXCEPT !.step = "return"]
  /\ pdfFrame

\* ----------------------------------------------------------- specifications
\* The party panels: typing, evidence upload, summarize and evaluate.
Next ==
  \/ ChooseLawsuitType
  \/ EditArgument
  \/ SelectFile
  \/ DropFile
  \/ RemoveFile
  \/ ClickSummarize
  \/ ClickEvaluate
  \/ PartyResponse
  \/ PartyFailed

Spec == Init /\ [][Next]_vars

\* The evidence upload targets alone.
UploadNext ==
  \/ ChooseLawsuitType
  \/ SelectFile
  \/ DropFile
  \/ RemoveFile

SpecUpload == Init /\ [][UploadNext]_vars

\* The argument boxes: typing and dropping files on them.
ArgDropNext ==
  \/ ChooseLawsuitType
  \/ EditArgument
  \/ ArgDrop
  \/ ArgReadLoaded
  \/ ArgReadFailed

SpecArgDrop == Init /\ [][ArgDropNext]_vars

\* The argument boxes when every started read completes with onload.
ArgOrderNext ==
  \/ ChooseLawsuitType
  \/ EditArgument
  \/ ArgDrop
  \/ ArgReadLoaded

SpecArgOrder == Init /\ [][ArgOrderNext]_vars

\* The export of a displayed bundle, for every combination of texts (absent,
\* present, blank) and of rows (none, one, two of which one lacks fields).
ExportTexts == {"", "t", " "}
ExportRows == {<<>>, <<FullRow>>, <<FullRow, PartialRow>>}

ExportInit ==
  /\ lawsuitType \in {"civil", "criminal"}
  /\ argument = [p \in Party |-> ""]
  /\ evidenceFile = [p \in Party |-> NoFile]
  /\ keyIssues = ""
  /\ mySide = "plaintiff"
  /\ myArgs = ""
  /\ fileError = [p \in Party |-> Null]
  /\ summary = [p \in Party |-> ""]
  /\ evaluation = [p \in Party |-> ""]
  /\ summarizing = Null
  /\ evaluating = Null
  /\ loading = FALSE
  /\ error = Null
  /\ summaryError = NoSummaryError
  /\ summaryResult \in ExportTexts
  /\ comparisonResult \in ExportRows
  /\ counterResult \in ExportTexts
  /\ structureResult \in ExportTexts
  /\ calls = NoCalls
  /\ pending = {}
  /\ values = NoValues
  /\ orphans = 0
  /\ sent = NoSent
  /\ svc = SvcIdle
  /\ AuxInit

ExportNext ==
  \/ ClickCopy
  \/ CopySettled
  \/ ClickDownload

SpecExport == ExportInit /\ [][ExportNext]_vars

\* The PDF text extractor alone, called again and again on any document.
PdfNext ==
  \/ PdfCalled
  \/ PdfOpened
  \/ PdfPage
  \/ PdfReturn

SpecPdf == Init /\ [][PdfNext]_vars

\* Synthesis alone, from every combination of present / absent summaries and
\* issue list, selected side and own-argument text; the side and the own
\* arguments can be edited at any time, also while a run is awaited.
RoutingInit ==
  /\ lawsuitType = "civil"
  /\ argument = [p \in Party |-> ""]
  /\ evidenceFile = [p \in Party |-> NoFile]
  /\ keyIssues \in {"", "k"}
  /\ mySide \in Party
  /\ myArgs \in InputTexts
  /\ fileError = [p \in Party |-> Null]
  /\ \E sp \in {"", "sp"}, sd \in {"", "sd"} :
       summary = [p \in Party |-> IF p = "plaintiff" THEN sp ELSE sd]
  /\ evaluation = [p \in Party |-> ""]
  /\ summarizing = Null
  /\ evaluating = Null
  /\ loading = FALSE
  /\ error = Null
  /\ summaryError = NoSummaryError
  /\ summaryResult = ""
  /\ comparisonResult = <<>>
  /\ counterResult = ""
  /\ structureResult = ""
  /\ calls = NoCalls
  /\ pending = {}
  /\ values = NoValues
  /\ orphans = 0
  /\ sent = NoSent
  /\ svc = SvcIdle
  /\ AuxInit

RoutingNext ==
  \/ EditMySide
  \/ EditMyArgs
  \/ ClickGenerate
  \/ GenerateResponse
  \/ GenerateFailed
  \/ OrphanSettled

SpecRouting == RoutingInit /\ [][RoutingNext]_vars

\* The handlers of the party panels, invoked whether or not their buttons
\* are enabled, once a lawsuit type is chosen and the defendant has uploaded
\* an image (the plaintiff has no evidence).
HandlersInit ==
  /\ lawsuitType = "civil"
  /\ argument = [p \in Party |-> ""]
  /\ evidenceFile = [p \in Party |-> IF p = "defendant" THEN PngFile ELSE NoFile]
  /\ keyIssues = ""
  /\ mySide = "plaintiff"
  /\ myArgs = ""
  /\ fileError = [p \in Party |-> Null]
  /\ summary = [p \in Party |-> ""]
  /\ evaluation = [p \in Party |-> ""]
  /\ summarizing = Null
  /\ evaluating = Null
  /\ loading = FALSE
  /\ error = Null
  /\ summaryError = NoSummaryError
  /\ summaryResult = ""
  /\ comparisonResult = <<>>
  /\ counterResult = ""
  /\ structureResult = ""
  /\ calls = NoCalls
  /\ pending = {}
  /\ values = NoValues
  /\ orphans = 0
  /\ sent = NoSent
  /\ svc = SvcIdle
  /\ AuxInit

HandlersNext ==
  \/ EditArgument
  \/ TriggerSummarize
  \/ TriggerEvaluate
  \/ PartyResponse
  \/ PartyFailed

SpecHandlers == HandlersInit /\ [][HandlersNext]_vars

\* The synthesis panel, on top of two parties that have each typed an
\* argument.
SynthInit ==
  /\ lawsuitType = "civil"
  /\ argument = [p \in Party |-> "a"]
  /\ evidenceFile = [p \in Party |-> NoFile]
  /\ keyIssues = ""
  /\ mySide = "plaintiff"
  /\ myArgs = ""
  /\ fileError = [p \in Party |-> Null]
  /\ summary = [p \in Party |-> ""]
  /\ evaluation = [p \in Party |-> ""]
  /\ summarizing = Null
  /\ evaluating = Null
  /\ loading = FALSE
  /\ error = Null
  /\ summaryError = NoSummaryError
  /\ summaryResult = ""
  /\ comparisonResult = <<>>
  /\ counterResult = ""
  /\ structureResult = ""
  /\ calls = NoCalls
  /\ pending = {}
  /\ values = NoValues
  /\ orphans = 0
  /\ sent = NoSent
  /\ svc = SvcIdle
  /\ AuxInit

SynthNext ==
  \/ EditKeyIssues
  \/ ClickSummarize
  \/ PartyResponse
  \/ PartyFailed
  \/ ClickGenerate
  \/ GenerateResponse
  \/ GenerateFailed
  \/ OrphanSettled

SpecSynth == SynthInit /\ [][SynthNext]_vars

\* Synthesis and the per-party operations together, from the state in which
\* both parties have typed an argument, uploaded an image and been
\* summarized, and the issue list is typed.
RerunInit ==
  /\ lawsuitType = "civil"
  /\ argument = [p \in Party |-> "a"]
  /\ evidenceFile = [p \in Party |-> PngFile]
  /\ keyIssues = "a"
  /\ mySide = "plaintiff"
  /\ myArgs = ""
  /\ fileError = [p \in Party |-> Null]
  /\ summary = [p \in Party |-> "t"]
  /\ evaluation = [p \in Party |-> ""]
  /\ summarizing = Null
  /\ evaluating = Null
  /\ loading = FALSE
  /\ error = Null
  /\ summaryError = NoSummaryError
  /\ summaryResult = ""
  /\ comparisonResult = <<>>
  /\ counterResult = ""
  /\ structureResult = ""
  /\ calls = NoCalls
  /\ pending = {}
  /\ values = NoValues
  /\ orphans = 0
  /\ sent = NoSent
  /\ svc = SvcIdle
  /\ AuxInit

RerunNext ==
  \/ ClickSummarize
  \/ ClickEvaluate
  \/ PartyResponse
  \/ PartyFailed
  \/ ClickGenerate
  \/ GenerateResponse
  \/ GenerateFailed
  \/ OrphanSettled

SpecRerun == RerunInit /\ [][RerunNext]_vars

\* An outstanding call of operation op for party p settles, either way.
PartySettled(op, p) ==
  \/ \E text \in ResponseTexts : callResolved(op, p, text)
  \/ \E thrown \in {AfterLoad(op, FALSE), AfterRequest(op, FALSE, "")} :
       callRejected(op, p, thrown.message)

\* The same operations from a state in which the plaintiff's argument is typed
\* and summarized and the defendant's argument and image are stored and
\* summarized, with every request eventually answered or failed: an
\* outstanding per-party call eventually settles, and so does some call of a
\* running synthesis.
ProgressInit ==
  /\ lawsuitType = "civil"
  /\ argument = [p \in Party |-> "a"]
  /\ evidenceFile = [p \in Party |-> IF p = "defendant" THEN PngFile ELSE NoFile]
  /\ keyIssues = "a"
  /\ mySide = "plaintiff"
  /\ myArgs = ""
  /\ fileError = [p \in Party |-> Null]
  /\ summary = [p \in Party |-> "t"]
  /\ evaluation = [p \in Party |-> ""]
  /\ summarizing = Null
  /\ evaluating = Null
  /\ loading = FALSE
  /\ error = Null
  /\ summaryError = NoSummaryError
  /\ summaryResult = ""
  /\ comparisonResult = <<>>
  /\ counterResult = ""
  /\ structureResult = ""
  /\ calls = NoCalls
  /\ pending = {}
  /\ values = NoValues
  /\ orphans = 0
  /\ sent = NoSent
  /\ svc = SvcIdle
  /\ AuxInit

SpecProgress ==
  /\ ProgressInit /\ [][RerunNext]_vars
  /\ \A op \in PartyOps, p \in Party : WF_vars(PartySettled(op, p))
  /\ WF_vars(GenerateResponse \/ GenerateFailed)

\* One call of one service operation.
OpsNext ==
  \/ SvcInvoke
  \/ SvcLoaded
  \/ SvcAnswered
  \/ SvcSettled

SpecOps == Init /\ [][OpsNext]_vars

\* ------------------------------------------------------------------ claims
bundleEmpty ==
  /\ summaryResult = ""
  /\ comparisonResult = <<>>
  /\ counterResult = ""
  /\ structureResult = ""

bundlePopulated ==
  /\ summaryResult # ""
  /\ comparisonResult # <<>>
  /\ counterResult # ""
  /\ structureResult # ""

\* The fixed user-facing message of each synthesis sub-operation.
FixedMessage(op) ==
  CASE op = "generateSummary" -> MsgSummaryFailed
    [] op = "generateComparisonTable" -> MsgComparisonFailed
    [] op = "generateCounterArguments" -> MsgCounterFailed
    [] op = "structureMyArguments" -> MsgStructureFailed

\* C1: synthesis is all-or-nothing on failure.  Starting a run empties all
\* four bundle fields, whatever was displayed before; and when a sub-operation
\* of the running synthesis fails, the run ends with all four fields empty and
\* with the session error set to the fixed message of that sub-operation, the
\* first to fail (the sub-operations that settled before it had succeeded).
C1_SynthesisAllOrNothing ==
  [][/\ ClickGenerate => bundleEmpty'
     /\ GenerateFailed =>
          /\ bundleEmpty'
          /\ ~loading'
          /\ error' \in {FixedMessage(op) : op \in pending}]_vars

\* Two sub-operations had returned when counter-arguments failed: the run is
\* over, nothing is displayed, and the error is the counter-argument message.
C1_Witness ==
  /\ error = MsgCounterFailed
  /\ ~loading
  /\ orphans = 1
  /\ bundleEmpty

\* C2: in every reachable state the four bundle fields are either all
\* populated (non-empty) or all empty.
C2_BundleAllOrNone == bundlePopulated \/ bundleEmpty

\* C2, as it holds: the four bundle fields are empty while a run is in
\* progress, and every step that changes them either empties all four or is
\* the completion of a run whose four sub-operations all returned, and sets
\* the four fields together to the four returned values (any of which may be
\* an empty text, or an empty row sequence).
C2_BundleCommittedTogether ==
  [][/\ loading' => bundleEmpty'
     /\ bundle' # bundle =>
          \/ bundleEmpty'
          \/ /\ loading /\ ~loading'
             /\ \E op \in pending : \E text \in Responses(op) :
                  /\ pending = {op}
                  /\ JSONparse(text).ok \/ op # "generateComparisonTable"
                  /\ LET returned == IF op = "generateComparisonTable"
                                     THEN JSONparse(text).value ELSE text
                         v == [values EXCEPT ![op] = returned]
                     IN bundle' = <<v["generateSummary"],
                                    v["generateComparisonTable"],
                                    v["generateCounterArguments"],
                                    v["structureMyArguments"]>>]_vars

\* A committed bundle whose comparison table is the (valid) empty sequence.
C2_Witness ==
  /\ summaryResult # ""
  /\ comparisonResult = <<>>
  /\ counterResult # ""
  /\ structureResult # ""

\* The precondition table: what each operation requires of its arguments.
PreconditionMet(op, args) ==
  CASE op = "evaluateEvidence" -> args[1] # "" /\ args[2] # NoFile
    [] op = "summarizeDocument" -> args[1] # "" \/ args[2] # NoFile
    [] op = "generateSummary" -> args[1] # "" /\ args[2] # ""
    [] op = "generateComparisonTable" -> args[1] # "" /\ args[2] # "" /\ args[3] # ""
    [] op = "generateCounterArguments" -> args[1] # ""
    [] op = "structureMyArguments" -> args[1] # "" /\ args[2] # ""

PreconditionMessage(op) ==
  CASE op = "evaluateEvidence" -> MsgEvaluatePre
    [] op = "summarizeDocument" -> MsgSummarizePre
    [] op = "generateSummary" -> MsgSummaryPre
    [] op = "generateComparisonTable" -> MsgComparisonPre
    [] op = "generateCounterArguments" -> MsgCounterPre
    [] op = "structureMyArguments" -> MsgStructurePre

\* C3: precondition gating.  A call of any of the six operations whose
\* precondition is unmet has thrown its precondition message and has sent no
\* request to the model.
C3_PreconditionGating ==
  (svc.step # "idle" /\ ~PreconditionMet(svc.op, svc.args)) =>
    /\ svc.step = "throw"
    /\ svc.message = PreconditionMessage(svc.op)
    /\ svc.requests = 0

\* The comparison table called with both summaries but no issue list.
C3_Witness ==
  /\ svc.op = "generateComparisonTable"
  /\ svc.args[1] # "" /\ svc.args[2] # "" /\ svc.args[3] = ""
  /\ svc.step = "throw"
  /\ svc.requests = 0

\* C4: summarize / evaluate asymmetry at the handlers.  handleSummarize for a
\* party with a non-empty argument or an evidence file starts a call of
\* summarizeDocument (argument-only and evidence-only included);
\* handleEvaluate for a party whose argument is empty or whose evidence is
\* absent starts no call, sets that party's inline precondition error, and
\* leaves the in-progress indicators, both summaries and both evaluations
\* unchanged.
C4_SummarizeEvaluateAsymmetry ==
  [][\A p \in Party :
       /\ (handleSummarize(p) /\ (argument[p] # "" \/ evidenceFile[p] # NoFile)) =>
            /\ calls'[<<"summarizeDocument", p>>] = calls[<<"summarizeDocument", p>>] + 1
            /\ summarizing' = p
       /\ (handleEvaluate(p) /\ (argument[p] = "" \/ evidenceFile[p] = NoFile)) =>
            /\ calls' = calls
            /\ summaryError' = SummaryError(p, MsgEvaluateInput)
            /\ UNCHANGED <<summarizing, evaluating, summary, evaluation>>]_vars

\* The plaintiff, argument only, is being summarized; the defendant, evidence
\* only, has been summarized and then refused an evaluation.
C4_Witness ==
  /\ argument["plaintiff"] # "" /\ evidenceFile["plaintiff"] = NoFile
  /\ Outstanding("summarizeDocument", "plaintiff") = 1
  /\ argument["defendant"] = "" /\ evidenceFile["defendant"] # NoFile
  /\ summary["defendant"] # ""
  /\ summaryError = SummaryError("defendant", MsgEvaluateInput)

\* C5: in no reachable state are a summarize call and an evaluate call of the
\* same party outstanding together.
C5_SummarizeEvaluateExclusive ==
  \A p \in Party :
    ~(Outstanding("summarizeDocument", p) > 0 /\ Outstanding("evaluateEvidence", p) > 0)

\* C6: every output slot has at most one outstanding operation that will write
\* it: per party, at most one summarize call (the summary slot) and at most one
\* evaluate call (the evaluation slot).  (The four bundle fields are written
\* only by the commit of the one awaited run.)
C6_ExclusiveOutputSlots ==
  \A op \in PartyOps, p \in Party : Outstanding(op, p) <= 1

PartyFailureMessages == {MsgSummarizeFailed, MsgEvaluateFailed}

\* C7: failure isolation.  The step that records the failure of a summarize or
\* evaluate call of one party leaves the other party's summary, evaluation,
\* in-progress indicators and displayed inline error, and the four bundle
\* fields, as they were.
C7_FailureIsolation ==
  [][\A op \in PartyOps, p \in Party, m \in PartyFailureMessages :
       callRejected(op, p, m) =>
         /\ summary'[Other(p)] = summary[Other(p)]
         /\ evaluation'[Other(p)] = evaluation[Other(p)]
         /\ (summarizing' = Other(p)) = (summarizing = Other(p))
         /\ (evaluating' = Other(p)) = (evaluating = Other(p))
         /\ (IF summaryError'.party = Other(p) THEN summaryError'.message ELSE Null)
              = currentError(Other(p))
         /\ UNCHANGED bundle]_vars

\* C8: every step of the summarize and evaluate handlers and of their
\* continuations (the steps that change an outstanding per-party call, a
\* summary, an evaluation, an in-progress indicator or the inline error)
\* leaves the four bundle fields unchanged, whether the call succeeds or
\* fails; the bundle changes only when synthesis is triggered or when the
\* triggered run completes.
C8_RerunKeepsBundle ==
  [][/\ (calls' # calls \/ partyVars' # partyVars) => UNCHANGED bundle
     /\ bundle' # bundle => (ClickGenerate \/ loading)]_vars

\* A bundle is displayed although the plaintiff's summary, from which it was
\* computed, has since been replaced by an empty one, and the defendant's
\* evidence has been evaluated.
C8_Witness ==
  /\ hasResults
  /\ ~loading
  /\ summary["plaintiff"] = ""
  /\ evaluation["defendant"] # ""

ReadyToSynthesize ==
  /\ summary["plaintiff"] # ""
  /\ summary["defendant"] # ""
  /\ keyIssues # ""
  /\ ~loading

\* C9: synthesis readiness.  The generate handler runs, and a run begins, only
\* in a state where both summaries and the issue list are non-empty and no run
\* is in progress; the test is made on the current values at each trigger.
C9_SynthesisReadiness ==
  [][/\ ClickGenerate => ReadyToSynthesize
     /\ (~loading /\ loading') => ReadyToSynthesize]_vars

\* A run was started, and readiness has been lost since: the defendant's
\* summary has been replaced by an empty one and the issue list cleared.
C9_Witness ==
  /\ loading
  /\ summary["defendant"] = ""
  /\ keyIssues = ""

\* image/* or application/pdf.
SupportedType(type) ==
  \/ type = <<"application", "/", "pdf">>
  \/ (Len(type) >= 3 /\ type[1] = "image" /\ type[2] = "/")

\* C10: uploading a file, by selection or by drop, whose type is neither
\* image/* nor application/pdf sets the unsupported-format error of that
\* party's upload target and leaves that party's stored evidence unchanged;
\* an accepted file becomes the stored evidence.
C10_UnsupportedUpload ==
  [][\A p \in Party, f \in UploadFiles :
       (handleFileChange(p, <<f>>) \/ handleDrop(p, <<f>>)) =>
         IF SupportedType(f.type)
         THEN evidenceFile'[p] = f
         ELSE /\ fileError'[p] = MsgUnsupportedFile
              /\ evidenceFile'[p] = evidenceFile[p]]_vars

\* A text file was dropped on the plaintiff's target while it held a PDF; the
\* defendant's target holds an accepted image.
C10_Witness ==
  /\ fileError["plaintiff"] = MsgUnsupportedFile
  /\ evidenceFile["plaintiff"] = PdfFile
  /\ evidenceFile["defendant"] = PngFile
  /\ fileError["defendant"] = Null


\* C11: dropping a file whose type is not text/plain on a party's argument
\* box changes no stored argument (that party's or the other's), starts no
\* read, and sets that box's error to the text-files-only message.
C11_NonTextDropRejected ==
  [][\A p \in Party, f \in ArgDropFiles :
       (f.type # TxtType /\ handleArgDrop(p, <<f>>)) =>
         /\ argument' = argument
         /\ reads' = reads
         /\ argFileError'[p] = MsgTextFileOnly
         /\ argFileError'[Other(p)] = argFileError[Other(p)]]_vars

\* A non-text file has been dropped on the box of a party with a stored
\* argument.
C11_Witness ==
  \E p \in Party : argument[p] = "a" /\ argFileError[p] = MsgTextFileOnly

\* C12: when the read of a dropped text file completes, the party's argument
\* is exactly the file's contents, for every file including the empty one.
C12_TextDropReplaces ==
  [][\A p \in Party, f \in TextFiles :
       readLoaded(p, f) => argument'[p] = fileText(f)]_vars

\* C13: one call of an operation sends at most one request: none before its
\* precondition has passed and its evidence has loaded, exactly one once it
\* awaits or has received the answer, none when it throws its precondition
\* message; after the request is answered (also with a failure) the call
\* settles without sending another request.
C13_AtMostOneRequest ==
  /\ [](/\ svc.requests <= 1
        /\ (svc.step \in {"request", "return"}) => (svc.requests = 1)
        /\ (svc.step \in {"idle", "load"}) => (svc.requests = 0)
        /\ (svc.step = "throw" /\ svc.message = PreconditionMessage(svc.op))
             => (svc.requests = 0))
  /\ [][((svc.step = "request") =>
            (svc'.step \in {"throw", "return"} /\ svc'.requests = 1))
        /\ ((svc.step \in {"throw", "return"}) => (svc'.step = "idle"))]_vars

\* A call whose request has failed: it has thrown after sending one request.
C13_Witness == svc.step = "throw" /\ svc.requests = 1

\* The predefined texts of the inline error and of the session error.
InlineMessages == {MsgSummarizeInput, MsgEvaluateInput, MsgSummarizePre,
                   MsgEvaluatePre, MsgSummarizeFailed, MsgEvaluateFailed,
                   MsgUnknownAnalysis}
SessionMessages == {MsgOpponentFirst, MsgSummaryPre, MsgComparisonPre,
                    MsgCounterPre, MsgStructurePre, MsgSummaryFailed,
                    MsgComparisonFailed, MsgCounterFailed, MsgStructureFailed,
                    MsgUnknownAnalysis, MsgCopyFailed}
                   \cup {MsgNoMyArgs(n) : n \in {"wongo", "pigo", "geomsa", "pigoin"}}

C15_UnsupportedMediaError ==
  (/\ svc.step # "idle"
   /\ svc.op \in PartyOps
   /\ PreconditionMet(svc.op, svc.args)
   /\ svc.args[2] # NoFile
   /\ ~SupportedType(svc.args[2].type))
    => (/\ svc.step = "throw"
        /\ svc.message = MsgUnsupportedEvidence
        /\ svc.requests = 0)

\* C16: every row of a sequence returned by the comparison operation has all
\* five fields; a response with a row that lacks a field is rejected.
C16_ComparisonRowsComplete ==
  (svc.op = "generateComparisonTable" /\ svc.step = "return")
    => \A i \in 1..Len(svc.value) : DOMAIN svc.value[i] = RowFields

\* The bundle field that holds the result of a sub-operation.
FieldOf(op) ==
  CASE op = "generateSummary" -> summaryResult
    [] op = "generateComparisonTable" -> comparisonResult
    [] op = "generateCounterArguments" -> counterResult
    [] op = "structureMyArguments" -> structureResult

\* C17: a run issues its four sub-operations together when it starts, before
\* any of them has completed; they complete in any order; a result that has
\* arrived is kept unchanged while the others are awaited; nothing is
\* committed while more than one sub-operation is outstanding; and the
\* successful end of the run puts every result that had arrived into the
\* field of its own operation, whatever the order of arrival.
C17_ParallelSynthesis ==
  [][/\ (~loading /\ loading') => (pending' = SynthOps /\ values' = NoValues)
     /\ (loading /\ loading') =>
          /\ pending' \subseteq pending
          /\ \A op \in SynthOps \ pending : values'[op] = values[op]
     /\ (loading /\ Cardinality(pending) > 1) => (loading' \/ bundleEmpty')
     /\ (loading /\ ~loading' /\ error' = Null) =>
          /\ Cardinality(pending) = 1
          /\ \A op \in SynthOps \ pending : FieldOf(op)' = values[op]]_vars

\* The sub-operation issued first is the last one outstanding: the three
\* issued after it have completed before it, with non-empty results.
C17_Witness ==
  /\ loading
  /\ pending = {"generateSummary"}
  /\ values["generateComparisonTable"] # <<>>
  /\ values["generateCounterArguments"] # ""
  /\ values["structureMyArguments"] # ""

\* C18: the step that ends a per-party call is the continuation of its
\* handler and clears the in-progress indicator of its operation; and, every
\* request being eventually answered or failed, a summarize or evaluate
\* indicator that is set is eventually cleared and a synthesis run that is
\* loading eventually stops loading.
C18_InProgressClears ==
  /\ [][\A p \in Party :
          /\ (calls'[<<"summarizeDocument", p>>] < calls[<<"summarizeDocument", p>>])
               => (summarizing' = Null)
          /\ (calls'[<<"evaluateEvidence", p>>] < calls[<<"evaluateEvidence", p>>])
               => (evaluating' = Null)]_vars
  /\ []<>(summarizing = Null)
  /\ []<>(evaluating = Null)
  /\ []<>(~loading)

\* The three in-progress indicators are set together.
C18_Witness == summarizing # Null /\ evaluating # Null /\ loading

\* The headers of a text, in the order in which they occur in it.
HeaderSet == {HdrSummary, HdrComparison, HdrCounter, HdrStructure}
RECURSIVE Headers(_)
Headers(text) ==
  IF text = <<>> THEN <<>>
  ELSE (IF Head(text) \in HeaderSet THEN <<Head(text)>> ELSE <<>>)
       \o Headers(Tail(text))

\* The headers of the fields that hold something, in the fixed order.
ExpectedHeaders ==
  (IF summaryResult # "" THEN <<HdrSummary>> ELSE <<>>)
  \o (IF comparisonResult # <<>> THEN <<HdrComparison>> ELSE <<>>)
  \o (IF counterResult # "" THEN <<HdrCounter>> ELSE <<>>)
  \o (IF structureResult # "" THEN <<HdrStructure>> ELSE <<>>)

\* The piece `first` stands two places after `header`, behind a blank line.
Introduces(text, header, first) ==
  \A i \in 1..Len(text) :
    (text[i] = header) =>
      (i + 2 <= Len(text) /\ text[i + 1] = "\n\n" /\ text[i + 2] = first)

\* The texts exported so far: being copied, copied, downloaded.
Exported ==
  copying \cup (IF clipboard # <<>> THEN {clipboard} ELSE {})
          \cup (IF downloaded # NoDownload THEN {downloaded.content} ELSE {})

RECURSIVE PagesSeparated(_)
PagesSeparated(pages) ==
  IF pages = <<>> THEN <<>>
  ELSE IF Len(pages) = 1 THEN joinItems(pages[1])
  ELSE joinItems(pages[1]) \o <<"\n">> \o PagesSeparated(Tail(pages))

\* The texts of the pages, each followed by a newline.
RECURSIVE PagesTerminated(_)
PagesTerminated(pages) ==
  IF pages = <<>> THEN <<>>
  ELSE joinItems(pages[1]) \o <<"\n">> \o PagesTerminated(Tail(pages))

\* Pages are fetched in the order 1, 2, ..., all of them before the
\* extraction returns, and an extraction of the document extracted just
\* before returns the same text.
PdfOrderAndRepeat ==
  /\ pdf.visited = [k \in 1..Len(pdf.visited) |-> k]
  /\ (pdf.step = "return") => (Len(pdf.visited) = Len(pdf.pages))
  /\ (pdf.step = "return" /\ pdf.previous.done /\ pdf.previous.pages = pdf.pages)
       => (pdf.fullText = pdf.previous.text)

\* C20, as claimed: pages are visited in ascending order, the items of a page
\* are joined with single spaces, the pages are joined with newline
\* separators, and extracting the same document again gives the same text.
C20_PagesJoinedByNewlines ==
  /\ PdfOrderAndRepeat
  /\ (pdf.step = "return") => (pdf.fullText = PagesSeparated(pdf.pages))

\* C20, as it holds: pages are visited in ascending order, the items of a
\* page are joined with single spaces, the text of every page, the last one
\* included, is followed by a newline, and extracting the same document again
\* gives the same text.
C20_PagesEndedByNewlines ==
  /\ PdfOrderAndRepeat
  /\ (pdf.step = "return") => (pdf.fullText = PagesTerminated(pdf.pages))

\* A two-page document, the first page with two items, has been extracted
\* twice in a row.
C20_Witness ==
  /\ pdf.step = "return"
  /\ Len(pdf.pages) = 2 /\ Len(pdf.pages[1]) = 2
  /\ pdf.previous.done /\ pdf.previous.pages = pdf.pages

\* C21: while a synthesis run is in progress (loading) the four bundle fields
\* are empty; and a step that leaves something in the bundle it did not hold
\* before is the end of a run, taken when a single sub-operation was still
\* outstanding, with no error recorded.
C21_EmptyWhileLoading ==
  /\ [](loading => bundleEmpty)
  /\ [][(bundle' # bundle /\ ~bundleEmpty') =>
          (/\ loading /\ ~loading'
           /\ Cardinality(pending) = 1
           /\ error' = Null)]_vars

\* A run is in progress, three of its results have arrived, and nothing is
\* displayed yet.
C21_Witness ==
  /\ loading /\ bundleEmpty
  /\ pending = {"structureMyArguments"}
  /\ values["generateSummary"] # ""
  /\ values["generateCounterArguments"] # ""

\* C22: the step that starts a run passes to the counter-arguments operation
\* the summary of the party opposite to the selected side, then the name of
\* the selected side, then the name of the opposite side; and to the
\* structuring operation the own-argument text if there is one, else the
\* selected side's summary, with the issue list; all as they are when the
\* run starts, and unaffected by edits made while the run is awaited.
C22_SideRouting ==
  [][/\ (~loading /\ loading') =>
          /\ sent'["generateCounterArguments"]
               = <<summary[Other(mySide)], partyNames[mySide],
                   partyNames[Other(mySide)]>>
          /\ sent'["structureMyArguments"]
               = <<IF myArgs # "" THEN myArgs ELSE summary[mySide], keyIssues>>
     /\ (loading /\ loading') => (sent' = sent)]_vars

\* A run started with the defendant as the selected side and no own-argument
\* text is awaited, and the selected side has since been changed.
C22_Witness ==
  /\ loading
  /\ mySide = "plaintiff"
  /\ sent["generateCounterArguments"] = <<"sp", "pigo", "wongo">>
  /\ sent["structureMyArguments"] = <<"sd", "k">>

\* The messages of the precondition tests of handleGenerate and of the four
\* sub-operations.
SynthesisPreconditionMessages ==
  {MsgOpponentFirst, MsgSummaryPre, MsgComparisonPre, MsgCounterPre, MsgStructurePre}
  \cup {MsgNoMyArgs(n) : n \in {"wongo", "pigo", "geomsa", "pigoin"}}

\* C25: whenever the synthesis control is enabled, the two tests made by
\* handleGenerate pass and the precondition of each of the four
\* sub-operations holds for the arguments it would be passed, whichever side
\* is selected and whatever the own-argument text; so a click on the control
\* starts a run with all four sub-operations outstanding, and the session
\* error is never a precondition message.
C25_EnabledImpliesPreconditions ==
  /\ [](~isGenerateDisabled =>
          /\ opponentSummary # ""
          /\ (mySummary # "" \/ myArgs # "")
          /\ \A op \in SynthOps : PreconditionMet(op, generateArgs[op]))
  /\ [](error \notin SynthesisPreconditionMessages)
  /\ [][ClickGenerate => (loading' /\ pending' = SynthOps /\ error' = Null)]_vars

\* A run has just been started for the defendant's side with own-argument
\* text entered: all four sub-operations are outstanding.
C25_Witness ==
  /\ loading /\ pending = SynthOps
  /\ sent["structureMyArguments"] = <<"a", "k">>
  /\ sent["generateCounterArguments"][1] = "sp"

\* C23: in every reachable state a summarize call of party p is outstanding
\* exactly when the summarizing indicator is p, and an evaluate call of party
\* p is outstanding exactly when the evaluating indicator is p.
C23_IndicatorAccuracy ==
  \A p \in Party :
    /\ (Outstanding("summarizeDocument", p) > 0) <=> (summarizing = p)
    /\ (Outstanding("evaluateEvidence", p) > 0) <=> (evaluating = p)

\* C24: the settling of a sub-operation whose run has already failed changes
\* no bundle field, nor the session error, nor the loading flag, nor the
\* bookkeeping of the run that is awaited at that moment, if there is one.
C24_LateResponsesInert ==
  [][(orphans' < orphans) =>
       (/\ orphans' = orphans - 1
        /\ UNCHANGED <<bundle, error, loading, pending, values, sent>>)]_vars

\* Sub-operations of a failed run are still outstanding while a later run is
\* awaited and has already received some of its results.
C24_Witness ==
  /\ orphans > 0
  /\ loading
  /\ pending # SynthOps

\* C26: the step on which a summarize call of party p returns sets p's summary
\* to the returned text and leaves the other party's summary and both
\* evaluations as they were; the step on which an evaluate call of p returns
\* sets p's evaluation to the returned text and leaves the other party's
\* evaluation and both summaries as they were; the step on which either call
\* fails leaves all summaries and evaluations as they were.
C26_OwnSlotOnly ==
  [][\A p \in Party :
       /\ \A text \in ResponseTexts :
            /\ callResolved("summarizeDocument", p, text) =>
                 (/\ summary' = [summary EXCEPT ![p] = text]
                  /\ evaluation' = evaluation)
            /\ callResolved("evaluateEvidence", p, text) =>
                 (/\ evaluation' = [evaluation EXCEPT ![p] = text]
                  /\ summary' = summary)
       /\ \A op \in PartyOps, m \in PartyFailureMessages :
            callRejected(op, p, m) =>
              (summary' = summary /\ evaluation' = evaluation)]_vars

\* The defendant has a stored summary and a stored evaluation, and a later
\* summarize call of the defendant has failed.
C26_Witness ==
  /\ summary["defendant"] # ""
  /\ evaluation["defendant"] # ""
  /\ summaryError = SummaryError("defendant", MsgSummarizeFailed)

\* The number of reads started for party p whose onload has not run yet.
ReadsOf(p) == SumReads(reads, {k \in ReadKeys : k[1] = p})

\* C27: once every read started for a party has completed, the party's
\* argument is the text of the most recent user action on its argument box
\* (the text typed last, or the content of the text file dropped last),
\* whenever that action supplied a non-empty text.
C27_LatestActionWins ==
  \A p \in Party :
    (ReadsOf(p) = 0 /\ latest[p] # "") => argument[p] = latest[p]
====
